---- MODULE Spec2Model ----
(***************************************************************************)
(* Model of claude-session-to-md.py: jsonl_to_markdown (transcript         *)
(* reconstruction and rendering), called once by main (Spec) or for every  *)
(* session by the loop of cmd_all (SpecBatch).                             *)
(*                                                                         *)
(* A text is a sequence of characters.  The seven letters of the word      *)
(* "summary" (and of "SUMMARY") are carried as one element of width 7, so  *)
(* that len() counts characters and the regular expression </?summary>     *)
(* is matched element by element.                                          *)
(***************************************************************************)
EXTENDS Integers, Sequences, FiniteSets, TLC

\* ---------------------------------------------------------------- bounds
MaxLines == 3
MaxFiles == 2

\* ------------------------------------------------------- text primitives
Width(c) == IF c \in {"summary", "SUMMARY"} THEN 7 ELSE 1

RECURSIVE Len_(_)
Len_(t) == IF t = <<>> THEN 0 ELSE Width(Head(t)) + Len_(Tail(t))

IsSpace(c) == c \in {" ", "\n"}

RECURSIVE LStrip(_)
LStrip(t) == IF t # <<>> /\ IsSpace(Head(t)) THEN LStrip(Tail(t)) ELSE t

RECURSIVE RStrip(_)
RStrip(t) ==
  IF t # <<>> /\ IsSpace(t[Len(t)]) THEN RStrip(SubSeq(t, 1, Len(t) - 1)) ELSE t

Strip(t) == RStrip(LStrip(t))

\* str.join over a sequence of texts
RECURSIVE Join(_, _)
Join(sep, ts) ==
  IF ts = <<>> THEN <<>>
  ELSE IF Len(ts) = 1 THEN ts[1]
  ELSE ts[1] \o sep \o Join(sep, Tail(ts))

\* str.splitlines for "\n" line ends: no trailing empty line, "" gives []
RECURSIVE SplitFrom(_, _)
SplitFrom(cur, t) ==
  IF t = <<>> THEN (IF cur = <<>> THEN <<>> ELSE <<cur>>)
  ELSE IF Head(t) = "\n" THEN <<cur>> \o SplitFrom(<<>>, Tail(t))
  ELSE SplitFrom(Append(cur, Head(t)), Tail(t))

SplitLines(t) == SplitFrom(<<>>, t)

\* length of the match of </?summary> at the head of t, 0 when none
TagAt(t) ==
  IF Len(t) >= 3 /\ t[1] = "<" /\ t[2] = "summary" /\ t[3] = ">" THEN 3
  ELSE IF Len(t) >= 4 /\ t[1] = "<" /\ t[2] = "/" /\ t[3] = "summary" /\ t[4] = ">"
       THEN 4
  ELSE 0

\* re.sub(r"</?summary>", "", t): one left-to-right pass, matches removed
RECURSIVE SubSummary(_)
SubSummary(t) ==
  IF t = <<>> THEN <<>>
  ELSE IF TagAt(t) > 0 THEN SubSummary(SubSeq(t, TagAt(t) + 1, Len(t)))
  ELSE <<Head(t)>> \o SubSummary(Tail(t))

\* ------------------------------------------------------------ input lines
TsIso == "2024-05-01T10:00:00Z"
TsRaw == "yesterday"

\* message ids that have the form of the keys line 263 makes
ReservedIds == {"_no_id_1", "_no_id_2"}

tA == <<"a">>
tB == <<"b">>
tBAA == <<"b", "a", "a">>
tOpen == <<"<", "summary", ">">>
tUpper == <<"<", "SUMMARY", ">", "a">>
tWrapped == <<"<", "summary", ">", "a", "<", "/", "summary", ">">>

TextBlock(t) == [type |-> "text", text |-> t]
ToolBlock == [type |-> "tool_use", text |-> <<>>]
NonDictBlock == [type |-> "nondict", text |-> <<>>]

StrContent(t) == [isStr |-> TRUE, isList |-> FALSE, text |-> t, blocks |-> <<>>]
ListContent(bs) == [isStr |-> FALSE, isList |-> TRUE, text |-> <<>>, blocks |-> bs]

NoRecord(k) ==
  [kind |-> k, type |-> "", role |-> "", content |-> StrContent(<<>>),
   timestamp |-> "", id |-> ""]

UserRec(t, ts) ==
  [kind |-> "object", type |-> "user", role |-> "user", content |-> StrContent(t),
   timestamp |-> ts, id |-> ""]

AsstRec(id, bs, ts) ==
  [kind |-> "object", type |-> "assistant", role |-> "assistant",
   content |-> ListContent(bs), timestamp |-> ts, id |-> id]

\* a line that is blank after strip()
BlankLine == NoRecord("blank")
\* a line json.loads rejects
BadJsonLine == NoRecord("badjson")
\* valid JSON that is not an object, such as [] or 42
NonObjectLine == NoRecord("nonobject")
\* an object whose "message" is not an object, such as {"message": "x"}
BadMessageLine == NoRecord("badmessage")
\* a user record whose content is a list (a tool result)
ToolResultLine ==
  [kind |-> "object", type |-> "user", role |-> "user",
   content |-> ListContent(<<ToolBlock>>), timestamp |-> TsIso, id |-> ""]

Lines ==
  { BlankLine, BadJsonLine, NonObjectLine, BadMessageLine, ToolResultLine,
    UserRec(tA, TsIso), UserRec(tA, TsRaw), UserRec(tB, ""),
    UserRec(tUpper, TsIso),
    AsstRec("m1", <<TextBlock(tA)>>, TsIso),
    AsstRec("m1", <<TextBlock(tA), ToolBlock, TextBlock(<<" ", "b", " ">>)>>, TsRaw),
    AsstRec("m1", <<TextBlock(tBAA)>>, TsIso),
    AsstRec("", <<TextBlock(tWrapped)>>, TsRaw),
    AsstRec("m2", <<TextBlock(tOpen)>>, TsIso),
    AsstRec("m2", <<ToolBlock, TextBlock(<<" ">>)>>, TsIso),
    AsstRec("_no_id_1", <<TextBlock(tA)>>, TsIso),
    AsstRec("_no_id_2", <<TextBlock(tA)>>, TsIso),
    AsstRec("m2", <<NonDictBlock>>, TsIso) }

\* ------------------------------------------------------------------ state
VARIABLES
  bpc,              \* the caller: "main", or cmd_all at "start", "loop", "done";
                    \* "aborted" once an exception has left it
  total,            \* len(sessions)
  idx,              \* sessions already handed to jsonl_to_markdown
  exported,         \* cmd_all's counter
  tally,            \* the final "Exported e/n" line, <<>> until printed
  pc,               \* jsonl_to_markdown: "idle", "reading", "returned", "raised"
  log,              \* the lines read so far, each with the counter it met
  messages,         \* the list `messages`
  seen_user_texts,
  assistant_msgs,   \* the dict, as its entries in insertion order
  order_counter,
  merged,
  lines,            \* the document's lines
  dest,             \* the destination file
  dest0,            \* the destination file before the call
  ret,              \* the value returned
  printed,          \* what the call printed
  raised            \* the exception that left the call, "" when none

vars ==
  << bpc, total, idx, exported, tally, pc, log, messages, seen_user_texts,
     assistant_msgs, order_counter, merged, lines, dest, dest0, ret, printed,
     raised >>

batchVars == << bpc, total, idx, exported, tally >>
tableVars == << messages, seen_user_texts, assistant_msgs, order_counter >>
renderVars == << merged, lines >>

\* ------------------------------------------------- reconstruction helpers
Msg(role, text, ts, order) ==
  [role |-> role, text |-> text, timestamp |-> ts, order |-> order]

\* the generator inside "\n".join(...): the stripped text of every block of
\* type "text" whose stripped text is not empty
RECURSIVE TextPieces(_)
TextPieces(bs) ==
  IF bs = <<>> THEN <<>>
  ELSE IF Head(bs).type = "text" /\ Strip(Head(bs).text) # <<>>
       THEN <<Strip(Head(bs).text)>> \o TextPieces(Tail(bs))
  ELSE TextPieces(Tail(bs))

FullText(bs) == Join(<<"\n">>, TextPieces(bs))

\* block.get on a block that is not a dict raises AttributeError
BlocksRaise(bs) == \E i \in 1..Len(bs) : bs[i].type = "nondict"

\* f"_no_id_{order_counter}"
NoIdKey(n) == "_no_id_" \o ToString(n)

HasKey(d, k) == \E i \in 1..Len(d) : d[i].key = k
KeyIdx(d, k) == CHOOSE i \in 1..Len(d) : d[i].key = k
Get(d, k) == d[KeyIdx(d, k)].val

\* d[k] = v: an existing key keeps its place in the dict's order
Put(d, k, v) ==
  IF HasKey(d, k) THEN [d EXCEPT ![KeyIdx(d, k)] = [key |-> k, val |-> v]]
  ELSE Append(d, [key |-> k, val |-> v])

RECURSIVE Values(_)
Values(d) == IF d = <<>> THEN <<>> ELSE <<Head(d).val>> \o Values(Tail(d))

IsUserRecord(rec) ==
  rec.type = "user" /\ rec.role = "user" /\ rec.content.isStr

IsAssistantRecord(rec) ==
  rec.type = "assistant" /\ rec.role = "assistant" /\ rec.content.isList

\* a variant that keeps the stored text against one of equal length
ReplacesStrictly(new, old) == Len_(new) > Len_(old)

\* the test of line 259
Replaces(new, old) == Len_(new) >= Len_(old)

\* a variant without the test of line 237
UserBranchNoDedup(T, rec) ==
  IF IsUserRecord(rec)
  THEN [T EXCEPT
          !.seen_user_texts = @ \cup {rec.content.text},
          !.messages = Append(@, Msg("user", rec.content.text, rec.timestamp,
                                     T.order_counter)),
          !.order_counter = @ + 1]
  ELSE T

\* lines 236-245
UserBranch(T, rec) ==
  IF IsUserRecord(rec) /\ rec.content.text \notin T.seen_user_texts
  THEN [T EXCEPT
          !.seen_user_texts = @ \cup {rec.content.text},
          !.messages = Append(@, Msg("user", rec.content.text, rec.timestamp,
                                     T.order_counter)),
          !.order_counter = @ + 1]
  ELSE T

\* lines 257-270, for a record whose assembled text is not empty
AssistantStore(T, rec, full_text) ==
  IF rec.id # "" /\ HasKey(T.assistant_msgs, rec.id)
  THEN IF Replaces(full_text, Get(T.assistant_msgs, rec.id).text)
       THEN [T EXCEPT !.assistant_msgs =
               Put(@, rec.id,
                   [Get(@, rec.id) EXCEPT !.text = full_text,
                                          !.timestamp = rec.timestamp])]
       ELSE T
  ELSE LET key == IF rec.id # "" THEN rec.id ELSE NoIdKey(T.order_counter)
       IN [T EXCEPT
             !.assistant_msgs =
                Put(@, key, Msg("assistant", full_text, rec.timestamp,
                                T.order_counter)),
             !.order_counter = @ + 1]

\* lines 247-270
AssistantBranch(T, rec) ==
  IF IsAssistantRecord(rec) /\ FullText(rec.content.blocks) # <<>>
  THEN AssistantStore(T, rec, FullText(rec.content.blocks))
  ELSE T

\* the lines on which the loop body raises instead of going on
LineRaises(line) ==
  \/ line.kind = "nonobject"
  \/ line.kind = "badmessage"
  \/ line.kind = "object" /\ IsAssistantRecord(line)
       /\ BlocksRaise(line.content.blocks)

\* one iteration of the loop of lines 220-270 that does not raise
LineStep(T, line) ==
  IF line.kind \in {"blank", "badjson"} THEN T
  ELSE AssistantBranch(UserBranch(T, line), line)

\* ------------------------------------------------------ rendering helpers
\* list.sort(key=order): stable, ascending
RECURSIVE InsertByOrder(_, _)
InsertByOrder(sorted, m) ==
  IF sorted = <<>> THEN <<m>>
  ELSE IF sorted[Len(sorted)].order <= m.order THEN Append(sorted, m)
  ELSE Append(InsertByOrder(SubSeq(sorted, 1, Len(sorted) - 1), m),
              sorted[Len(sorted)])

RECURSIVE SortFrom(_, _)
SortFrom(sorted, rest) ==
  IF rest = <<>> THEN sorted
  ELSE SortFrom(InsertByOrder(sorted, Head(rest)), Tail(rest))

SortByOrder(ms) == SortFrom(<<>>, ms)

\* lines 273-274
FinalMessages(T) == SortByOrder(T.messages \o Values(T.assistant_msgs))

DL(kind, role, text) == [kind |-> kind, role |-> role, text |-> text]

\* datetime.fromisoformat(ts.replace("Z", "+00:00")) accepts ts
IsoParses(ts) == ts = TsIso
DateText(ts) == IF IsoParses(ts) THEN <<"2024-05-01 10:00">> ELSE <<ts>>

\* lines 280-294
Header(ms) ==
  << DL("title", "", <<>>), DL("blank", "", <<>>) >>
  \o (IF ms[1].timestamp # "" THEN << DL("date", "", DateText(ms[1].timestamp)) >>
      ELSE <<>>)
  \o << DL("sid", "", <<>>), DL("blank", "", <<>>), DL("rule", "", <<>>),
        DL("blank", "", <<>>) >>

\* lines 297-302
RECURSIVE MergeFrom(_, _)
MergeFrom(acc, ms) ==
  IF ms = <<>> THEN acc
  ELSE IF acc # <<>> /\ acc[Len(acc)].role = Head(ms).role
       THEN MergeFrom([acc EXCEPT ![Len(acc)].text =
                         @ \o <<"\n", "\n">> \o Head(ms).text], Tail(ms))
  ELSE MergeFrom(Append(acc, Head(ms)), Tail(ms))

Merge(ms) == MergeFrom(<<>>, ms)

\* line 306
Sanitize(t) == Strip(SubSummary(t))

RECURSIVE Quoted(_)
Quoted(tls) ==
  IF tls = <<>> THEN <<>> ELSE <<DL("quote", "", Head(tls))>> \o Quoted(Tail(tls))

\* lines 306-316, for one merged message
Section(m) ==
  IF Sanitize(m.text) = <<>> THEN <<>>
  ELSE << DL("marker", m.role, <<>>) >> \o Quoted(SplitLines(Sanitize(m.text)))
       \o << DL("blank", "", <<>>) >>

RECURSIVE Sections(_)
Sections(ms) == IF ms = <<>> THEN <<>> ELSE Section(Head(ms)) \o Sections(Tail(ms))

Document(ms) == Header(ms) \o Sections(Merge(ms))

\* a variant that counts the merged blocks
ReportedCountMerged(ms, mg) == Len(mg)

\* line 321: the count in the "Saved" line
ReportedCount(ms, mg) == Len(ms)

\* ----------------------------------------------------------------- actions
NoFile == [state |-> "absent", content |-> <<>>]
OldFile == [state |-> "old", content |-> <<>>]
Written(doc) == [state |-> "written", content |-> doc]

Nothing == [kind |-> "", count |-> 0]
NoTally == [shown |-> FALSE, exported |-> 0, total |-> 0]

Tables ==
  [messages |-> messages, seen_user_texts |-> seen_user_texts,
   assistant_msgs |-> assistant_msgs, order_counter |-> order_counter]

SetTables(T) ==
  /\ messages' = T.messages
  /\ seen_user_texts' = T.seen_user_texts
  /\ assistant_msgs' = T.assistant_msgs
  /\ order_counter' = T.order_counter

FreshCall(d0) ==
  /\ log' = <<>>
  /\ messages' = <<>>
  /\ seen_user_texts' = {}
  /\ assistant_msgs' = <<>>
  /\ order_counter' = 0
  /\ merged' = <<>>
  /\ lines' = <<>>
  /\ dest' = d0
  /\ dest0' = d0
  /\ raised' = ""

\* the caller is at a call of jsonl_to_markdown: main (lines 613-615), or
\* cmd_all with a session left (lines 419-421)
AtCall ==
  /\ pc = "idle"
  /\ bpc = "main" \/ (bpc = "loop" /\ idx < total)

InitVars(caller) ==
  /\ bpc = caller
  /\ total = 0
  /\ idx = 0
  /\ exported = 0
  /\ tally = NoTally
  /\ pc = "idle"
  /\ log = <<>>
  /\ messages = <<>>
  /\ seen_user_texts = {}
  /\ assistant_msgs = <<>>
  /\ order_counter = 0
  /\ merged = <<>>
  /\ lines = <<>>
  /\ dest = NoFile
  /\ dest0 = NoFile
  /\ ret = "none"
  /\ printed = Nothing
  /\ raised = ""

\* main with a file argument, lines 612-615
Init == InitVars("main")

\* main with --all, lines 595-596
InitBatch == InitVars("start")

\* cmd_all, lines 412-415: no session, nothing exported, no tally
CmdAllNoSessions ==
  /\ bpc = "start"
  /\ bpc' = "done"
  /\ UNCHANGED << total, idx, exported, tally, pc, log, tableVars, renderVars,
                  dest, dest0, ret, printed, raised >>

\* cmd_all, lines 412-418
CmdAllBegin ==
  /\ bpc = "start"
  /\ \E n \in 1..MaxFiles : total' = n
  /\ bpc' = "loop"
  /\ exported' = 0
  /\ UNCHANGED << idx, tally, pc, log, tableVars, renderVars, dest, dest0, ret,
                  printed, raised >>

\* jsonl_to_markdown, lines 206-208
CallNotFound ==
  /\ AtCall
  /\ \E d0 \in {NoFile, OldFile} : FreshCall(d0)
  /\ printed' = [kind |-> "File not found", count |-> 0]
  /\ ret' = "False"
  /\ pc' = "returned"
  /\ UNCHANGED batchVars

\* jsonl_to_markdown, lines 206-219
CallOpen ==
  /\ AtCall
  /\ \E d0 \in {NoFile, OldFile} : FreshCall(d0)
  /\ printed' = Nothing
  /\ ret' = "none"
  /\ pc' = "reading"
  /\ UNCHANGED batchVars

\* one iteration of the loop of lines 220-270
ReadLine ==
  /\ pc = "reading" /\ Len(log) < MaxLines
  /\ \E line \in Lines :
       /\ ~LineRaises(line)
       /\ log' = Append(log, [line |-> line, ctr |-> order_counter])
       /\ SetTables(LineStep(Tables, line))
  /\ UNCHANGED << batchVars, pc, renderVars, dest, dest0, ret, printed, raised >>

\* an iteration in which entry.get, message.get or block.get raises: nothing
\* catches AttributeError, in jsonl_to_markdown or in its caller
ReadLineRaises ==
  /\ pc = "reading" /\ Len(log) < MaxLines
  /\ \E line \in Lines :
       /\ LineRaises(line)
       /\ log' = Append(log, [line |-> line, ctr |-> order_counter])
  /\ raised' = "AttributeError"
  /\ pc' = "raised"
  /\ bpc' = "aborted"
  /\ UNCHANGED << total, idx, exported, tally, tableVars, renderVars, dest,
                  dest0, ret, printed >>

\* a variant without the test of line 276
FinishEmptyWrites ==
  /\ pc = "reading"
  /\ FinalMessages(Tables) = <<>>
  /\ messages' = <<>>
  /\ dest' = Written(<< DL("title", "", <<>>), DL("blank", "", <<>>) >>)
  /\ printed' = [kind |-> "Saved", count |-> 0]
  /\ ret' = "True"
  /\ pc' = "returned"
  /\ UNCHANGED << batchVars, log, seen_user_texts, assistant_msgs,
                  order_counter, renderVars, dest0, raised >>

\* end of file, lines 273-278: nothing reconstructed
FinishEmpty ==
  /\ pc = "reading"
  /\ FinalMessages(Tables) = <<>>
  /\ messages' = <<>>
  /\ printed' = [kind |-> "No messages", count |-> 0]
  /\ ret' = "False"
  /\ pc' = "returned"
  /\ UNCHANGED << batchVars, log, seen_user_texts, assistant_msgs,
                  order_counter, renderVars, dest, dest0, raised >>

\* end of file, lines 273-322: the document is written
FinishSaved ==
  /\ pc = "reading"
  /\ FinalMessages(Tables) # <<>>
  /\ messages' = FinalMessages(Tables)
  /\ merged' = Merge(messages')
  /\ lines' = Document(messages')
  /\ dest' = Written(lines')
  /\ printed' = [kind |-> "Saved", count |-> ReportedCount(messages', merged')]
  /\ ret' = "True"
  /\ pc' = "returned"
  /\ UNCHANGED << batchVars, log, seen_user_texts, assistant_msgs,
                  order_counter, dest0, raised >>

\* end of file, lines 273-318: open(output_path, "w") raises OSError, which
\* nothing catches, in jsonl_to_markdown or in its caller
FinishWriteFails ==
  /\ pc = "reading"
  /\ FinalMessages(Tables) # <<>>
  /\ messages' = FinalMessages(Tables)
  /\ merged' = Merge(messages')
  /\ lines' = Document(messages')
  /\ raised' = "OSError"
  /\ pc' = "raised"
  /\ bpc' = "aborted"
  /\ UNCHANGED << total, idx, exported, tally, log, seen_user_texts,
                  assistant_msgs, order_counter, dest, dest0, ret, printed >>

\* cmd_all, lines 421-422
Collect ==
  /\ bpc = "loop" /\ pc = "returned"
  /\ exported' = IF ret = "True" THEN exported + 1 ELSE exported
  /\ idx' = idx + 1
  /\ pc' = "idle"
  /\ UNCHANGED << bpc, total, tally, log, tableVars, renderVars, dest, dest0,
                  ret, printed, raised >>

\* cmd_all, line 424
Tally ==
  /\ bpc = "loop" /\ pc = "idle" /\ idx = total
  /\ tally' = [shown |-> TRUE, exported |-> exported, total |-> total]
  /\ bpc' = "done"
  /\ UNCHANGED << total, idx, exported, pc, log, tableVars, renderVars, dest,
                  dest0, ret, printed, raised >>

Next ==
  \/ CallNotFound
  \/ CallOpen
  \/ ReadLine
  \/ ReadLineRaises
  \/ FinishEmpty
  \/ FinishSaved
  \/ FinishWriteFails

Spec == Init /\ [][Next]_vars

NextBatch ==
  \/ CmdAllNoSessions
  \/ CmdAllBegin
  \/ CallNotFound
  \/ CallOpen
  \/ ReadLine
  \/ ReadLineRaises
  \/ FinishEmpty
  \/ FinishSaved
  \/ FinishWriteFails
  \/ Collect
  \/ Tally

SpecBatch == InitBatch /\ [][NextBatch]_vars

TypeOK ==
  /\ bpc \in {"main", "start", "loop", "done", "aborted"}
  /\ pc \in {"idle", "reading", "returned", "raised"}
  /\ total \in 0..MaxFiles /\ idx \in 0..total /\ exported \in 0..idx
  /\ Len(log) <= MaxLines
  /\ order_counter \in 0..Len(log)
  /\ ret \in {"none", "True", "False"}
  /\ raised \in {"", "AttributeError", "OSError"}

\* ------------------------------------------------- reading the log back
Min(S) == CHOOSE x \in S : \A y \in S : x <= y
Max(S) == CHOOSE x \in S : \A y \in S : x >= y

LogIdx == 1..Len(log)

UserOcc(t) ==
  { i \in LogIdx : log[i].line.kind = "object" /\ IsUserRecord(log[i].line)
                   /\ log[i].line.content.text = t }

UserTexts == { log[i].line.content.text : i \in { j \in LogIdx :
                 log[j].line.kind = "object" /\ IsUserRecord(log[j].line) } }

\* assistant records that assemble to a text, and their texts
IsTextRecord(i) ==
  /\ log[i].line.kind = "object" /\ IsAssistantRecord(log[i].line)
  /\ ~BlocksRaise(log[i].line.content.blocks)
  /\ FullText(log[i].line.content.blocks) # <<>>

TextOf(i) == FullText(log[i].line.content.blocks)

\* every assistant record carrying id k
IdOcc(k) ==
  { i \in LogIdx : log[i].line.kind = "object" /\ IsAssistantRecord(log[i].line)
                   /\ log[i].line.id = k }

Ids == { log[i].line.id : i \in { j \in LogIdx : log[j].line.kind = "object"
                                   /\ IsAssistantRecord(log[j].line)
                                   /\ log[j].line.id # "" } }

UserMsgs(ms, t) == { i \in 1..Len(ms) : ms[i].role = "user" /\ ms[i].text = t }

\* the last call got to the end of the file and wrote the document
Finished == printed.kind = "Saved"

InCall == pc \in {"reading", "returned", "raised"}

\* ------------------------------------------------------------------ C1
\* C1: when the log holds two or more user records with the same text,
\* `messages` holds exactly one user message for that text, its order is the
\* counter value met by the first of these records, and in the final list it
\* stands after exactly the messages of smaller order.
C1_DuplicateSuppression ==
  InCall =>
    \A t \in UserTexts :
      Cardinality(UserOcc(t)) >= 2 =>
        /\ Cardinality(UserMsgs(messages, t)) = 1
        /\ \A i \in UserMsgs(messages, t) :
             /\ messages[i].order = log[Min(UserOcc(t))].ctr
             /\ Finished =>
                  i = 1 + Cardinality({ j \in 1..Len(messages) :
                                          messages[j].order < messages[i].order })

C1_Witness ==
  /\ Finished
  /\ \E t \in UserTexts :
       /\ Cardinality(UserOcc(t)) >= 2
       /\ \E i \in UserMsgs(messages, t) : i > 1

\* ------------------------------------------------------------------ C2
NonDecreasing(S) ==
  \A i, j \in S : i < j => Len_(TextOf(i)) <= Len_(TextOf(j))

RevisionHolds(k) ==
  (IdOcc(k) # {} /\ (\A i \in IdOcc(k) : IsTextRecord(i)) /\ NonDecreasing(IdOcc(k)))
    => /\ HasKey(assistant_msgs, k)
       /\ Get(assistant_msgs, k).text = TextOf(Max(IdOcc(k)))
       /\ Get(assistant_msgs, k).order = log[Min(IdOcc(k))].ctr

\* C2: for every assistant id whose records arrive with non-decreasing
\* assembled-text lengths, the text stored for the id is the text of the last
\* of them and its order is the counter value met by the first of them.
C2_StreamingRevision ==
  InCall /\ pc # "raised" => \A k \in Ids : RevisionHolds(k)

\* the same for the ids that are not of the form _no_id_<n>
RevisionRuleForPlainIds ==
  InCall /\ pc # "raised" => \A k \in Ids \ ReservedIds : RevisionHolds(k)

RevisionRuleReached ==
  /\ Finished
  /\ Cardinality(IdOcc("m1")) = 3
  /\ \A i \in IdOcc("m1") : IsTextRecord(i)
  /\ NonDecreasing(IdOcc("m1"))

\* ------------------------------------------------------------------ C3
\* the final list exists: lines 273-274 ran on a list that is not empty
FinalBuilt == Finished \/ raised = "OSError"

\* the key under which the dict holds message m
KeyOf(m) ==
  assistant_msgs[CHOOSE i \in 1..Len(assistant_msgs) : assistant_msgs[i].val = m].key

\* the assistant records that resolve to key k: those carrying it as their
\* id, and the id-less ones that met the counter value k is made from
KeyOcc(k) ==
  { i \in LogIdx : IsTextRecord(i)
                   /\ \/ log[i].line.id = k
                      \/ log[i].line.id = "" /\ NoIdKey(log[i].ctr) = k }

\* the first record of the logical message m: of its text for a user message,
\* of its key for an assistant message
FirstRecord(m) ==
  IF m.role = "user" THEN Min(UserOcc(m.text)) ELSE Min(KeyOcc(KeyOf(m)))

Sorted(ms) == \A i, j \in 1..Len(ms) : i < j => ms[i].order < ms[j].order

\* C3: the final list is in ascending order of sequence index, and A stands
\* before B in it exactly when the first record of A stands before the first
\* record of B in the log.
C3_FirstAppearanceOrder ==
  FinalBuilt =>
    /\ Sorted(messages)
    /\ \A i, j \in 1..Len(messages) :
         i < j <=> FirstRecord(messages[i]) < FirstRecord(messages[j])

\* a message whose key no id-less record and no id of the form _no_id_<n>
\* can share
IsPlain(m) == m.role = "user" \/ KeyOf(m) \notin ReservedIds

\* the same for the messages of user texts and of ids that are not of the form
\* _no_id_<n>: each keeps the counter value its first record met
FirstAppearanceForPlainIds ==
  FinalBuilt =>
    /\ Sorted(messages)
    /\ \A i \in 1..Len(messages) :
         IsPlain(messages[i]) =>
           messages[i].order = log[FirstRecord(messages[i])].ctr
    /\ \A i, j \in 1..Len(messages) :
         IsPlain(messages[i]) /\ IsPlain(messages[j]) =>
           (i < j <=> FirstRecord(messages[i]) < FirstRecord(messages[j]))

\* an assistant message stands first although a record after the creation of
\* the second message revised it
FirstAppearanceReached ==
  /\ Finished
  /\ Len(messages) >= 2 /\ Len(log) = 3
  /\ messages[1].role = "assistant" /\ IsPlain(messages[1])
  /\ FirstRecord(messages[1]) = 1 /\ FirstRecord(messages[2]) = 2
  /\ IsTextRecord(3) /\ log[3].line.id = KeyOf(messages[1])
  /\ messages[1].text = TextOf(3) /\ TextOf(3) # TextOf(1)

\* ------------------------------------------------------------------ C4
\* the roles of the sections of a document, in order
RECURSIVE Markers(_)
Markers(doc) ==
  IF doc = <<>> THEN <<>>
  ELSE IF Head(doc).kind = "marker" THEN <<Head(doc).role>> \o Markers(Tail(doc))
  ELSE Markers(Tail(doc))

\* C4: in every document written, no two consecutive sections have the same
\* role, also when the block between them was dropped as empty.
C4_AdjacencyMergeTotality ==
  Finished =>
    \A i \in 1..(Len(Markers(dest.content)) - 1) :
      Markers(dest.content)[i] # Markers(dest.content)[i + 1]

\* ------------------------------------------------------------------ C5
RECURSIVE SkipBlanks(_)
SkipBlanks(t) == IF t # <<>> /\ Head(t) = " " THEN SkipBlanks(Tail(t)) ELSE t

\* t starts with an opening or closing summary tag, in any casing or spacing;
\* the number of elements of the tag, 0 when there is none
AnyTagAt(t) ==
  IF t = <<>> \/ Head(t) # "<" THEN 0
  ELSE LET a == SkipBlanks(Tail(t))
           b == IF a # <<>> /\ Head(a) = "/" THEN SkipBlanks(Tail(a)) ELSE a
           c == IF b # <<>> /\ Head(b) \in {"summary", "SUMMARY"}
                THEN SkipBlanks(Tail(b)) ELSE <<>>
       IN IF c # <<>> /\ Head(c) = ">" THEN Len(t) - Len(c) + 1 ELSE 0

ContainsAnyTag(t) == \E i \in 1..Len(t) : AnyTagAt(SubSeq(t, i, Len(t))) > 0

RECURSIVE WithoutAnyTag(_)
WithoutAnyTag(t) ==
  IF t = <<>> THEN <<>>
  ELSE IF AnyTagAt(t) > 0 THEN WithoutAnyTag(SubSeq(t, AnyTagAt(t) + 1, Len(t)))
  ELSE <<Head(t)>> \o WithoutAnyTag(Tail(t))

\* C5: no quoted line of a written document contains a summary tag in any
\* casing or spacing, and a block that is only tags and whitespace has no
\* section.
C5_MarkupSanitation ==
  Finished =>
    /\ \A i \in 1..Len(dest.content) :
         dest.content[i].kind = "quote" => ~ContainsAnyTag(dest.content[i].text)
    /\ Len(Markers(dest.content)) =
         Cardinality({ i \in 1..Len(merged) :
                         Strip(WithoutAnyTag(merged[i].text)) # <<>> })

\* ------------------------------------------------------------------ C6
\* no line read so far makes a logical message
NoMessageInLog == UserTexts = {} /\ \A i \in LogIdx : ~IsTextRecord(i)

C7_MalformedLineNeverAborts ==
  \A i \in LogIdx : LineRaises(log[i].line) => pc # "raised"

\* ------------------------------------------------------------------ C8
\* C8: a failure on one file never aborts the batch: no exception of a call
\* leaves cmd_all, and a batch that began with sessions ends only with the
\* tally of all of them.
C8_BatchFailureIsolation ==
  /\ raised = "OSError" => bpc # "aborted"
  /\ bpc = "done" /\ total > 0 => tally.shown /\ tally.total = total /\ idx = total

\* ------------------------------------------------------------------ C9
\* the keys the text records of the log resolve to
AssistantKeys ==
  { IF log[i].line.id # "" THEN log[i].line.id ELSE NoIdKey(log[i].ctr) :
      i \in { j \in LogIdx : IsTextRecord(j) } }

\* C9 as stated: the count in the "Saved" line is the number of sections of
\* the document.
C9_CountIsSections ==
  Finished => printed.count = Len(Markers(dest.content))

\* C9 amended: the count in the "Saved" line is the number of logical
\* messages reconstructed (one per user text and one per assistant key),
\* never less than the number of sections of the document.
C9_CountIsLogicalMessages ==
  Finished =>
    /\ printed.count = Cardinality(UserTexts) + Cardinality(AssistantKeys)
    /\ printed.count >= Len(Markers(dest.content))

\* a document with fewer sections than the count printed
C9_Witness ==
  Finished /\ printed.count > Len(Markers(dest.content))
     /\ Len(Markers(dest.content)) >= 1

\* ----------------------------------------------------------------- C10
\* a step that is one iteration of the reading loop, and the line it read
ReadStep == pc = "reading" /\ pc' = "reading" /\ Len(log') = Len(log) + 1
LastLine == log'[Len(log')].line
LastText == FullText(LastLine.content.blocks)
LastIsText ==
  /\ LastLine.kind = "object" /\ IsAssistantRecord(LastLine)
  /\ LastText # <<>>

UsersKept == \A i \in 1..Len(messages) : messages'[i] = messages[i]

\* C10 as stated, in full: a stored message changes its text or timestamp only
\* when the record read has its id and a strictly longer assembled text.
C10_StrictlyLongerOnly ==
  [][ReadStep =>
       /\ UsersKept
       /\ \A i \in 1..Len(assistant_msgs) :
            (assistant_msgs'[i].val.text # assistant_msgs[i].val.text
               \/ assistant_msgs'[i].val.timestamp # assistant_msgs[i].val.timestamp)
            => /\ LastIsText
               /\ LastLine.id = assistant_msgs[i].key
               /\ Len_(LastText) > Len_(assistant_msgs[i].val.text)]_vars

Stores(i) ==
  /\ LastIsText
  /\ \/ /\ LastLine.id = assistant_msgs[i].key
        /\ Len_(LastText) >= Len_(assistant_msgs[i].val.text)
     \/ /\ LastLine.id = ""
        /\ NoIdKey(order_counter) = assistant_msgs[i].key

IdLessOcc == { i \in LogIdx : IsTextRecord(i) /\ log[i].line.id = "" }

\* the ids of the records that assemble to a text
TextIds == { log[i].line.id : i \in { j \in LogIdx : IsTextRecord(j)
                                         /\ log[j].line.id # "" } }

\* the id-less record i has a logical message of its own: an entry with its
\* text, its timestamp and the counter value it met, to which no other record
\* resolves
OwnMessage(i) ==
  /\ HasKey(assistant_msgs, NoIdKey(log[i].ctr))
  /\ Get(assistant_msgs, NoIdKey(log[i].ctr)).text = TextOf(i)
  /\ Get(assistant_msgs, NoIdKey(log[i].ctr)).timestamp = log[i].line.timestamp
  /\ Get(assistant_msgs, NoIdKey(log[i].ctr)).order = log[i].ctr
  /\ KeyOcc(NoIdKey(log[i].ctr)) = {i}

IdLessUnique ==
  /\ \A i \in IdLessOcc : OwnMessage(i)
  /\ Len(assistant_msgs) = Cardinality(IdLessOcc) + Cardinality(TextIds)

\* C11: every assistant record without an id that assembles to a text has a
\* logical message of its own, with its own sequence index, that no other
\* record is merged into, revises or replaces; the dict holds one message per
\* id-less record and one per id.
C11_IdLessRecordsUnique == InCall => IdLessUnique

\* the same for the logs in which no id has the form _no_id_<n>
IdLessUniqueForPlainIds ==
  InCall /\ Ids \cap ReservedIds = {} => IdLessUnique

\* two id-less records and a record with an id, each with its own message
IdLessUniqueReached ==
  /\ Finished
  /\ Cardinality(IdLessOcc) = 2 /\ Cardinality(TextIds) = 1
  /\ Ids \cap ReservedIds = {}
  /\ Len(messages) = 3

\* the last clause of C11 alone: no iteration of the reading loop lowers the
\* number of logical messages
MessagesNeverDecrease ==
  [][ReadStep =>
       Len(messages') + Len(assistant_msgs') >= Len(messages) + Len(assistant_msgs)]_vars

====
